---- MODULE Spec2Model ----
(***************************************************************************)
(* The email-monitoring and webhook-forwarding pipeline of                 *)
(* app/services/processor.py (EmailProcessor), with the processed_emails   *)
(* table of app/models/database.py as the persistent store.                *)
(*                                                                         *)
(* One EmailProcessor runs on one asyncio event loop.  A loop task is      *)
(* suspended only at its real suspension points: the two sleeps and the    *)
(* webhook POSTs.  The Gmail calls (.execute()) and the SQLAlchemy calls   *)
(* are blocking, and an uncontended asyncio.Lock is acquired without       *)
(* yielding, so the code between two suspension points runs atomically     *)
(* with respect to everything else on the loop (stop_monitoring,           *)
(* start_background_tasks).  A second instance of the application that     *)
(* shares the database file is a separate writer to the store.             *)
(***************************************************************************)
EXTENDS Integers, Sequences, FiniteSets, Bags, TLC

\* ---------------------------------------------------------------- bounds
MaxMsgs == 2        \* message ids the mailbox can list
MaxHooks == 1       \* active webhooks of one dispatch of the pipeline
MaxMonitors == 2    \* active monitor configs of one cycle
MaxOuts == 3        \* active webhooks of one call in the dispatch specification
MaxCancelled == 1   \* loop tasks cancelled and not yet ended
MaxConfigs == 2     \* stored monitor configs
MaxStates == 2      \* OAuth state tokens the login endpoint issues
MaxClock == 3       \* steps of the clock of the OAuth flow
MaxParts == 2       \* parts of the payload of a fetched message
MaxConns == 2       \* websocket clients that connect

\* ------------------------------------------------------- program constants
DefaultSleep == 60     \* asyncio.sleep(... if configs else 60)
BackoffSleep == 60     \* asyncio.sleep(60) after an error in the loop body
DefaultInterval == 60  \* EmailMonitorConfig.check_interval_seconds default
FloorInterval == 30    \* the schema's ge=30
StateTokenLifetime == 600  \* seconds an OAuth state token is kept

MsgIds == 1..MaxMsgs
Outcomes == {"ok", "bad", "exc"}   \* status < 300, status >= 300, exception

VARIABLES
    running,     \* EmailProcessor._running
    cache,       \* EmailProcessor._processed_ids
    rows,        \* the processed_emails table: a bag of rows [mid, fwd]
    pc,          \* where the live loop task is: none, new, check, msg, post, sleep, backoff
    nCfg,        \* len(configs) of the current iteration
    cfgIdx,      \* index of the config being checked
    pending,     \* `for message in messages`: the messages not yet done, current first
    nHooks,      \* len(webhooks) of the current dispatch
    hookIdx,     \* index of the webhook whose POST is in flight
    success,     \* the local `success` of _forward_to_webhooks
    sleepFor,    \* the argument of the asyncio.sleep the task is in
    dispatched,  \* history: the ids a dispatch has POSTed to a webhook for
    checked,     \* history: number of _check_emails calls of this iteration
    last,        \* history: what the latest step did
    cancelled,   \* number of loop tasks whose cancellation is requested, not yet ended
    overlap,     \* history: a loop task was created while another was live
    fHooks,      \* dispatch alone: the outcome each active webhook gives, in query order
    fPc,         \* dispatch alone: idle, call, loop, done
    fIdx,        \* dispatch alone: index of the webhook of the current loop pass
    fSuccess,    \* dispatch alone: the local `success`, the result once done
    fPosts,      \* dispatch alone: the webhooks POSTed to, in order
    fRaised,     \* dispatch alone: whether the call raised
    fCfg,        \* dispatch alone: send_raw_body and content_type of each active webhook
    fMsg,        \* dispatch alone: body, subject and sender of the message
    fReqs,       \* dispatch alone: the requests given to session.post, in order
    cfgs,        \* monitor CRUD: check_interval_seconds of each stored EmailMonitorConfig
    cLast,       \* monitor CRUD: the latest request and its status code
    stateTokens, \* OAuth: state_tokens / memory_state_tokens, records [s, at]
    oauthFlows,  \* OAuth: the keys of oauth_flows
    issued,      \* OAuth: number of state tokens generated so far
    now,         \* OAuth: time.time(), in seconds
    tokenFile,   \* OAuth: the token file: {} when absent, {s} when written by the callback of state s
    aLast,       \* OAuth: the latest request, what it decided and did
    rId,         \* two invocations: the message id each invocation is called with
    rPc,         \* two invocations: call, post, done, raised
    rHooks,      \* two invocations: the outcome each active webhook gives
    rIdx,        \* two invocations: index of the webhook whose POST is in flight
    rCache,      \* two invocations: _processed_ids
    rRows,       \* two invocations: the processed_emails table
    rDecided,    \* two invocations: what the dedup check of each invocation decided
    rPosts,      \* two invocations: the POSTs made, <<invocation, id>> in order
    eMsg,        \* extraction: the fetched message (Date header, parts, top-level body)
    ePc,         \* extraction: idle, call, extracted, tested
    eRes,        \* extraction: what _extract_email_data gave: raised, body, received_at
    eOut,        \* extraction: what the pipeline does next: no_body, forward, raise
    conns,       \* websocket: active_connections, a list of connection ids
    wStatus,     \* websocket: each connection: none, ok, broken (its sends raise), gone
    opened,      \* websocket: number of connections accepted so far
    bPc,         \* broadcast: idle, send, done, for each broadcast task
    bIdx,        \* broadcast: the index i of enumerate for the send in flight
    bCur,        \* broadcast: the connection of the send in flight
    bDisc,       \* broadcast: the local list `disconnected`
    bStart,      \* broadcast history: the connections listed when the task began
    bSent,       \* broadcast history: the connections a send was made to
    bFailed,     \* broadcast history: the connections whose send raised
    bRemoved     \* broadcast history: the connections the task deleted from the list

tvars == <<cancelled, overlap>>

mvars == <<running, cache, rows, pc, nCfg, cfgIdx, pending, nHooks, hookIdx, success,
           sleepFor, dispatched, checked, last, tvars>>

fvars == <<fHooks, fPc, fIdx, fSuccess, fPosts, fRaised, fCfg, fMsg, fReqs>>

cvars == <<cfgs, cLast>>

avars == <<stateTokens, oauthFlows, issued, now, tokenFile, aLast>>

\* the variables of the components beside the pipeline and the dispatch
rvars == <<rId, rPc, rHooks, rIdx, rCache, rRows, rDecided, rPosts>>

evars == <<eMsg, ePc, eRes, eOut>>

wvars == <<conns, wStatus, opened, bPc, bIdx, bCur, bDisc, bStart, bSent, bFailed,
           bRemoved>>

svars == <<cvars, avars, rvars, evars, wvars>>

\* what the requests of one component leave alone
cOthers == <<mvars, fvars, avars, rvars, evars, wvars>>
aOthers == <<mvars, fvars, cvars, rvars, evars, wvars>>
rOthers == <<mvars, fvars, cvars, avars, evars, wvars>>
eOthers == <<mvars, fvars, cvars, avars, rvars, wvars>>
wOthers == <<mvars, fvars, cvars, avars, rvars, evars>>

vars == <<mvars, fvars, svars>>

\* ------------------------------------------------------------ the mailbox
\* Whether _get_email_body finds a body in message m: message 1 is one without
\* a text/plain part and without a top-level body, the others have a body.
HasBody(m) == m > 1

\* ------------------------------------------------------------ the store
\* ProcessedEmail.message_id is declared unique=True: a commit that would add a
\* second row with the same message_id raises IntegrityError.
UniqueDropped(rs, m) == FALSE

UniqueViolation(rs, m) == \E r \in BagToSet(rs) : r.mid = m

\* db.query(ProcessedEmail).filter(message_id == m).first()
Existing(m) == \E r \in BagToSet(rows) : r.mid = m

Row(m, f) == [mid |-> m, fwd |-> f]

\* db.add(processed); db.commit()
Insert(rs, m, f) == rs (+) SetToBag({Row(m, f)})

\* number of rows with message_id = m
CountOf(m) == CopiesIn(Row(m, TRUE), rows) + CopiesIn(Row(m, FALSE), rows)

\* ------------------------------------------------------ webhook dispatch
\* _send_to_webhook with _process_webhook_response: True for a status below
\* 300, False for any other status and for an exception of the request.
SendToWebhook(o) == o = "ok"

\* `success = await self._send_to_webhook(...)`: the local is overwritten.
AccumulateAny(s, r) == s \/ r

Accumulate(s, r) == r

\* One pass of `for webhook in webhooks`, the webhook giving outcome o: the new
\* value of `success` and whether the loop goes on.  _send_to_webhook catches
\* every Exception of the request and returns False, and the pass has its own
\* try/except around the call, so no outcome leaves the loop.
AfterSendUncaught(s, o) ==
    IF o = "exc" THEN [success |-> s, go |-> "raise"]
    ELSE [success |-> Accumulate(s, SendToWebhook(o)), go |-> "next"]

AfterSend(s, o) == [success |-> Accumulate(s, SendToWebhook(o)), go |-> "next"]

\* WebhookConfig.content_type and .send_raw_body of a webhook.
ContentTypes == {"application/json", "text/plain"}

WebhookConfigs == [raw : BOOLEAN, ctype : ContentTypes]

\* The extracted fields of a message that a dispatch is given.
Messages == [body : {"buy", "sell"}, subject : {"alert"}, sender : {"tv"}]

\* The dict `payload` built once per dispatch.
Payload(msg) ==
    [body |-> msg.body, subject |-> msg.subject, sender |-> msg.sender, timestamp |-> "now"]

\* The arguments _send_to_webhook gives session.post for webhook w: the
\* Content-Type header from the webhook, and data=body for a raw webhook,
\* json=payload otherwise.
RequestAlwaysJson(w, msg) ==
    [ctype |-> "application/json", kind |-> "json", content |-> Payload(msg)]

Request(w, msg) ==
    [ctype |-> w.ctype,
     kind |-> IF w.raw THEN "data" ELSE "json",
     content |-> IF w.raw THEN msg.body ELSE Payload(msg)]

\* `if not webhooks: return False`
NoHooksTrue == TRUE

ForwardNoHooks == FALSE

\* ------------------------------------------------------------ the loop
\* The interval of the i-th active config (a config-store input).
IntervalOf(i) == IF i % 2 = 1 THEN DefaultInterval ELSE FloorInterval

RECURSIVE MinInterval(_)
MinInterval(n) ==
    IF n = 1 THEN IntervalOf(1)
    ELSE LET r == MinInterval(n - 1) IN IF IntervalOf(n) < r THEN IntervalOf(n) ELSE r

\* The argument of the asyncio.sleep entered at position p, n configs active.
SleepArgFixed(p, n) == IF p \in {"sleep", "backoff"} THEN DefaultSleep ELSE 0

SleepArg(p, n) ==
    IF p = "sleep" THEN (IF n = 0 THEN DefaultSleep ELSE MinInterval(n))
    ELSE IF p = "backoff" THEN BackoffSleep
    ELSE 0

Pos(p, c, ms) == [pc |-> p, cfgIdx |-> c, pending |-> ms]

\* after `for config in configs` has finished config cfgIdx
AfterConfig == IF cfgIdx < nCfg THEN Pos("check", cfgIdx + 1, <<>>) ELSE Pos("sleep", 0, <<>>)

\* after `for message in messages` has finished the current message
AfterMessage == IF Len(pending) > 1 THEN Pos("msg", cfgIdx, Tail(pending)) ELSE AfterConfig

\* Where control goes when the call at `site` raises an Exception: the query of
\* the active configs is inside the loop's outer try only (backoff); every call
\* made by _check_emails is inside its own try/except, which logs and returns,
\* so the loop goes on with the next config.
ErrorTargetNoIsolation(site) == Pos("backoff", 0, <<>>)

ErrorTargetUncaught(site) == IF site = "configs" THEN Pos("none", 0, <<>>) ELSE AfterConfig

ErrorTargetStorePropagates(site) ==
    IF site \in {"configs", "dedup", "commit", "unique"} THEN Pos("backoff", 0, <<>>)
    ELSE AfterConfig

ErrorTarget(site) == IF site = "configs" THEN Pos("backoff", 0, <<>>) ELSE AfterConfig

\* The real suspension points of the loop task (none: no live task).
AtAwait == pc \in {"none", "new", "sleep", "backoff", "post"}

Faults == {"none", "dedup", "fetch", "hooks", "commit", "pubsched", "pubrun"}

Last(step, m, kind, err, fx, hooks, again) ==
    [step |-> step, mid |-> m, kind |-> kind, err |-> err, fx |-> fx, hooks |-> hooks,
     again |-> again]

EnvLast == Last("env", 0, "none", "none", {}, -1, FALSE)

\* ------------------------------------------------------------------ Init
\* EmailProcessor.__init__: flag false, no task, empty cache; the store empty.
NoProcessor ==
    /\ running = FALSE
    /\ cache = {}
    /\ rows = EmptyBag
    /\ pc = "none"
    /\ nCfg = 0
    /\ cfgIdx = 0
    /\ pending = <<>>
    /\ nHooks = 0
    /\ hookIdx = 0
    /\ success = FALSE
    /\ sleepFor = 0
    /\ dispatched = {}
    /\ checked = 0
    /\ last = EnvLast
    /\ cancelled = 0
    /\ overlap = FALSE

\* no call of _forward_to_webhooks observed on its own
NoDispatch ==
    /\ fHooks = <<>>
    /\ fPc = "idle"
    /\ fIdx = 0
    /\ fSuccess = FALSE
    /\ fPosts = <<>>
    /\ fRaised = FALSE
    /\ fCfg = <<>>
    /\ fMsg = [body |-> "buy", subject |-> "alert", sender |-> "tv"]
    /\ fReqs = <<>>

\* no monitor config stored, no CRUD request made
NoConfigs ==
    /\ cfgs = <<>>
    /\ cLast = [op |-> "none", id |-> 0, status |-> 0]

\* no state token issued, no token file, no OAuth request made
NoAuth ==
    /\ stateTokens = {}
    /\ oauthFlows = {}
    /\ issued = 0
    /\ now = 0
    /\ tokenFile = {}
    /\ aLast = [op |-> "none", s |-> 0, status |-> 0, known |-> FALSE,
                exchanged |-> FALSE, before |-> {}]

\* the components beside the pipeline and the dispatch at rest
\* no invocation of the pipeline beside the loop's
NoRace ==
    /\ rId = <<>>
    /\ rPc = <<>>
    /\ rHooks = <<>>
    /\ rIdx = <<>>
    /\ rCache = {}
    /\ rRows = EmptyBag
    /\ rDecided = <<>>
    /\ rPosts = <<>>

NoBody == [kind |-> "none", text |-> ""]

\* no message fetched
NoExtract ==
    /\ eMsg = [date |-> "valid", hasParts |-> FALSE, parts |-> <<>>, body |-> {}]
    /\ ePc = "idle"
    /\ eRes = [raised |-> FALSE, body |-> NoBody, received |-> "none"]
    /\ eOut = "none"

\* the two broadcast tasks that can be live together
Tasks == {1, 2}

\* no websocket client, no broadcast scheduled
NoSockets ==
    /\ conns = <<>>
    /\ wStatus = [c \in 1..MaxConns |-> "none"]
    /\ opened = 0
    /\ bPc = [b \in Tasks |-> "idle"]
    /\ bIdx = [b \in Tasks |-> 0]
    /\ bCur = [b \in Tasks |-> 0]
    /\ bDisc = [b \in Tasks |-> <<>>]
    /\ bStart = [b \in Tasks |-> {}]
    /\ bSent = [b \in Tasks |-> {}]
    /\ bFailed = [b \in Tasks |-> {}]
    /\ bRemoved = [b \in Tasks |-> {}]

NoSide ==
    /\ NoConfigs
    /\ NoAuth
    /\ NoRace
    /\ NoExtract
    /\ NoSockets

Init ==
    /\ NoProcessor
    /\ NoDispatch
    /\ NoSide

\* ------------------------------------------------- the per-message pipeline
\* What one run of the code between two suspension points did to message m:
\* disp is whether _forward_to_webhooks was called.
Res(kind, err, fx, cacheAdd, insert, fwd, disp) ==
    [kind |-> kind, err |-> err, fx |-> fx, cacheAdd |-> cacheAdd, insert |-> insert,
     fwd |-> fwd, disp |-> disp]

\* db.add + db.commit of _save_processed_email: raises when the store is
\* unavailable (fault) or when the unique constraint rejects the row.
SaveOutcome(m, fault) ==
    IF fault = "commit" THEN "commit"
    ELSE IF UniqueViolation(rows, m) THEN "unique"
    ELSE "none"

\* _broadcast_email_to_websocket under publish fault p: building the event and
\* scheduling the broadcast task are inside try/except Exception (pubsched),
\* and the broadcast itself runs in a task of its own, whose exception
\* _log_broadcast_completion takes (pubrun): nothing reaches the caller.
PublishPropagates(p) == p = "pubsched"

PublishRaises(p) == FALSE

\* What the publish step adds to the effects: the event went out, or it failed.
PublishFx(p) == IF p \in {"pubsched", "pubrun"} THEN {"pubfail"} ELSE {"publish"}

\* _process_email_message from the record step on: _save_processed_email, then
\* _processed_ids.add, then _broadcast_email_to_websocket.
FinishCachesBeforeCommit(m, s, fault, fx, disp) ==
    IF SaveOutcome(m, fault) # "none"
    THEN Res("raise", SaveOutcome(m, fault), fx \cup PublishFx(fault), TRUE, FALSE, FALSE, disp)
    ELSE Res("recorded", "none", fx \cup {"insert"} \cup PublishFx(fault), TRUE, TRUE, s, disp)

FinishRetriesFailed(m, s, fault, fx, disp) ==
    IF SaveOutcome(m, fault) # "none"
    THEN Res("raise", SaveOutcome(m, fault), fx, FALSE, FALSE, FALSE, disp)
    ELSE IF ~s THEN Res("recorded", "none", fx, FALSE, FALSE, FALSE, disp)
    ELSE Res("recorded", "none", fx \cup {"insert"} \cup PublishFx(fault), TRUE, TRUE, s, disp)

Finish(m, s, fault, fx, disp) ==
    IF SaveOutcome(m, fault) # "none"
    THEN Res("raise", SaveOutcome(m, fault), fx, FALSE, FALSE, FALSE, disp)
    ELSE IF PublishRaises(fault)
    THEN Res("raise", fault, fx \cup {"insert"} \cup PublishFx(fault), TRUE, TRUE, s, disp)
    ELSE Res("recorded", "none", fx \cup {"insert"} \cup PublishFx(fault), TRUE, TRUE, s, disp)

\* _process_email_message from its start to its first suspension point (the
\* first POST), or to its end when it has none: k is the number of active
\* webhooks the query of _forward_to_webhooks returns.
BeginIgnoresStore(m, fault, k) ==
    IF m \in cache THEN Res("skip_cache", "none", {}, FALSE, FALSE, FALSE, FALSE)
    ELSE IF fault = "fetch" THEN Res("raise", "fetch", {"fetch"}, FALSE, FALSE, FALSE, FALSE)
    ELSE IF ~HasBody(m) THEN Res("nobody", "none", {"fetch"}, FALSE, FALSE, FALSE, FALSE)
    ELSE IF k = 0 THEN Finish(m, ForwardNoHooks, fault, {"fetch"}, TRUE)
    ELSE Res("post", "none", {"fetch", "post"}, FALSE, FALSE, FALSE, TRUE)

BeginRecordsNoBody(m, fault, k) ==
    IF m \in cache THEN Res("skip_cache", "none", {}, FALSE, FALSE, FALSE, FALSE)
    ELSE IF fault = "dedup" THEN Res("raise", "dedup", {}, FALSE, FALSE, FALSE, FALSE)
    ELSE IF Existing(m) THEN Res("skip_store", "none", {}, TRUE, FALSE, FALSE, FALSE)
    ELSE IF fault = "fetch" THEN Res("raise", "fetch", {"fetch"}, FALSE, FALSE, FALSE, FALSE)
    ELSE IF ~HasBody(m) THEN Finish(m, FALSE, fault, {"fetch"}, FALSE)
    ELSE IF fault = "hooks" THEN Res("raise", "hooks", {"fetch"}, FALSE, FALSE, FALSE, TRUE)
    ELSE IF k = 0 THEN Finish(m, ForwardNoHooks, fault, {"fetch"}, TRUE)
    ELSE Res("post", "none", {"fetch", "post"}, FALSE, FALSE, FALSE, TRUE)

BeginCachesNoBody(m, fault, k) ==
    IF m \in cache THEN Res("skip_cache", "none", {}, FALSE, FALSE, FALSE, FALSE)
    ELSE IF fault = "dedup" THEN Res("raise", "dedup", {}, FALSE, FALSE, FALSE, FALSE)
    ELSE IF Existing(m) THEN Res("skip_store", "none", {}, TRUE, FALSE, FALSE, FALSE)
    ELSE IF fault = "fetch" THEN Res("raise", "fetch", {"fetch"}, FALSE, FALSE, FALSE, FALSE)
    ELSE IF ~HasBody(m) THEN Res("nobody", "none", {"fetch"}, TRUE, FALSE, FALSE, FALSE)
    ELSE IF fault = "hooks" THEN Res("raise", "hooks", {"fetch"}, FALSE, FALSE, FALSE, TRUE)
    ELSE IF k = 0 THEN Finish(m, ForwardNoHooks, fault, {"fetch"}, TRUE)
    ELSE Res("post", "none", {"fetch", "post"}, FALSE, FALSE, FALSE, TRUE)

BeginNoBackfill(m, fault, k) ==
    IF m \in cache THEN Res("skip_cache", "none", {}, FALSE, FALSE, FALSE, FALSE)
    ELSE IF fault = "dedup" THEN Res("raise", "dedup", {}, FALSE, FALSE, FALSE, FALSE)
    ELSE IF Existing(m) THEN Res("skip_store", "none", {}, FALSE, FALSE, FALSE, FALSE)
    ELSE IF fault = "fetch" THEN Res("raise", "fetch", {"fetch"}, FALSE, FALSE, FALSE, FALSE)
    ELSE IF ~HasBody(m) THEN Res("nobody", "none", {"fetch"}, FALSE, FALSE, FALSE, FALSE)
    ELSE IF fault = "hooks" THEN Res("raise", "hooks", {"fetch"}, FALSE, FALSE, FALSE, TRUE)
    ELSE IF k = 0 THEN Finish(m, ForwardNoHooks, fault, {"fetch"}, TRUE)
    ELSE Res("post", "none", {"fetch", "post"}, FALSE, FALSE, FALSE, TRUE)

Begin(m, fault, k) ==
    IF m \in cache THEN Res("skip_cache", "none", {}, FALSE, FALSE, FALSE, FALSE)
    ELSE IF fault = "dedup" THEN Res("raise", "dedup", {}, FALSE, FALSE, FALSE, FALSE)
    ELSE IF Existing(m) THEN Res("skip_store", "none", {}, TRUE, FALSE, FALSE, FALSE)
    ELSE IF fault = "fetch" THEN Res("raise", "fetch", {"fetch"}, FALSE, FALSE, FALSE, FALSE)
    ELSE IF ~HasBody(m) THEN Res("nobody", "none", {"fetch"}, FALSE, FALSE, FALSE, FALSE)
    ELSE IF fault = "hooks" THEN Res("raise", "hooks", {"fetch"}, FALSE, FALSE, FALSE, TRUE)
    ELSE IF k = 0 THEN Finish(m, ForwardNoHooks, fault, {"fetch"}, TRUE)
    ELSE Res("post", "none", {"fetch", "post"}, FALSE, FALSE, FALSE, TRUE)

\* The position after result r of the current message.
Target(r) ==
    IF r.kind = "post" THEN Pos("post", cfgIdx, pending)
    ELSE IF r.kind = "raise" THEN ErrorTarget(r.err)
    ELSE AfterMessage

Goto(pos) ==
    /\ pc' = pos.pc
    /\ cfgIdx' = pos.cfgIdx
    /\ pending' = pos.pending
    /\ sleepFor' = SleepArg(pos.pc, nCfg)

\* The locals of a task that is gone.
NoTask ==
    /\ pc' = "none"
    /\ nCfg' = 0
    /\ cfgIdx' = 0
    /\ pending' = <<>>
    /\ nHooks' = 0
    /\ hookIdx' = 0
    /\ success' = FALSE
    /\ sleepFor' = 0
    /\ checked' = 0

\* The state change of result r of message m, k webhooks being active.
Apply(step, m, r, k) ==
    /\ cache' = IF r.cacheAdd THEN cache \cup {m} ELSE cache
    /\ rows' = IF r.insert THEN Insert(rows, m, r.fwd) ELSE rows
    /\ dispatched' = IF r.kind = "post" THEN dispatched \cup {m} ELSE dispatched
    /\ last' = Last(step, m, r.kind, r.err, r.fx, IF r.disp THEN k ELSE -1,
                    r.kind = "post" /\ m \in dispatched)
    /\ running' = running
    /\ nHooks' = IF r.kind = "post" THEN k ELSE 0
    /\ hookIdx' = IF r.kind = "post" THEN 1 ELSE 0
    /\ success' = FALSE
    /\ IF Target(r).pc = "none"
       THEN NoTask
       ELSE Goto(Target(r)) /\ UNCHANGED <<nCfg, checked>>

ProcessMessage ==
    /\ pc = "msg"
    /\ UNCHANGED tvars
    /\ \E fault \in Faults, k \in 0..MaxHooks :
          Apply("begin", Head(pending), Begin(Head(pending), fault, k), k)
    /\ UNCHANGED <<fvars, svars>>

\* The response (or exception) of the POST in flight arrives; the loop over the
\* webhooks goes on with the next POST, or the dispatch returns and the message
\* is recorded (the effects of that step begin with the last answer).
Post ==
    /\ pc = "post"
    /\ UNCHANGED tvars
    /\ \E o \in Outcomes, fault \in {"none", "commit", "pubsched", "pubrun"} :
          LET a == AfterSend(success, o)
              m == Head(pending)
          IN  IF a.go = "raise"
              THEN Apply("finish", m, Res("raise", "post", {}, FALSE, FALSE, FALSE, TRUE),
                         nHooks)
              ELSE IF hookIdx < nHooks
              THEN /\ hookIdx' = hookIdx + 1
                   /\ success' = a.success
                   /\ last' = Last("post", m, "post", "none", {"post"}, nHooks, FALSE)
                   /\ UNCHANGED <<running, cache, rows, pc, nCfg, cfgIdx, pending, nHooks,
                                  sleepFor, dispatched, checked>>
              ELSE Apply("finish", m, Finish(m, a.success, fault, {o}, TRUE), nHooks)
    /\ UNCHANGED <<fvars, svars>>

\* ------------------------------------------------------- the monitor loop
\* What the mail listing of one check can return: distinct ids, in the
\* provider's order.
Listings ==
    {s \in UNION {[1..n -> MsgIds] : n \in 0..MaxMsgs} :
        \A i, j \in DOMAIN s : i < j => s[i] # s[j]}

\* One evaluation of `while self._running` and the query of the active configs:
\* the task starts, or wakes from a sleep, and begins an iteration.  The event
\* loop runs its ready callbacks in the order they were scheduled: the wake-up
\* of a cancelled task was scheduled by the stop call, before the start call
\* that created the new task, so a new task takes its first step only after
\* the tasks cancelled before its creation have ended.
LoopTop ==
    /\ pc \in {"new", "sleep", "backoff"}
    /\ pc = "new" => cancelled = 0
    /\ UNCHANGED tvars
    /\ IF ~running
       THEN /\ NoTask
            /\ last' = Last("top", 0, "none", "none", {}, -1, FALSE)
            /\ UNCHANGED <<running, cache, rows, dispatched>>
       ELSE \E fail \in BOOLEAN, n \in 0..MaxMonitors :
              LET pos == IF fail THEN ErrorTarget("configs")
                         ELSE IF n = 0 THEN Pos("sleep", 0, <<>>)
                         ELSE Pos("check", 1, <<>>)
                  cnt == IF fail THEN 0 ELSE n
              IN  /\ last' = Last("top", 0, IF fail THEN "raise" ELSE "none",
                                  IF fail THEN "configs" ELSE "none", {}, -1, FALSE)
                  /\ IF pos.pc = "none"
                     THEN NoTask
                     ELSE /\ nCfg' = cnt
                          /\ pc' = pos.pc
                          /\ cfgIdx' = pos.cfgIdx
                          /\ pending' = <<>>
                          /\ sleepFor' = SleepArg(pos.pc, cnt)
                          /\ checked' = 0
                          /\ UNCHANGED <<nHooks, hookIdx, success>>
                  /\ UNCHANGED <<running, cache, rows, dispatched>>
    /\ UNCHANGED <<fvars, svars>>

\* _check_emails of config cfgIdx up to its loop over the listed messages.
CheckEmails ==
    /\ pc = "check"
    /\ UNCHANGED tvars
    /\ \E fail \in BOOLEAN, ls \in Listings :
          LET pos == IF fail THEN ErrorTarget("list")
                     ELSE IF ls = <<>> THEN AfterConfig
                     ELSE Pos("msg", cfgIdx, ls)
          IN  /\ last' = Last("check", 0, IF fail THEN "raise" ELSE "none",
                              IF fail THEN "list" ELSE "none", {}, -1, FALSE)
              /\ IF pos.pc = "none"
                 THEN NoTask
                 ELSE /\ Goto(pos)
                      /\ checked' = checked + 1
                      /\ UNCHANGED <<nCfg, nHooks, hookIdx, success>>
              /\ UNCHANGED <<running, cache, rows, dispatched>>
    /\ UNCHANGED <<fvars, svars>>

\* ------------------------------------------------- start, stop, restart
\* `if self._running: return`: whether a start call goes on, given the flag.
StartAlways(r) == TRUE

StartProceeds(r) == ~r

\* `self._running = False` when initialize_gmail_service returned False: the
\* value of the flag after a start without a usable credential.
FlagLeftSet == TRUE

FlagAfterFailedInit == FALSE

\* start_background_tasks: it has no suspension point (the credential code is
\* blocking), so it runs atomically; ok is whether initialize_gmail_service
\* obtained a credential.  asyncio.create_task adds a loop task.
Start ==
    /\ AtAwait
    /\ IF ~StartProceeds(running)
       THEN /\ last' = Last("start", 0, "noop", "none", {}, -1, FALSE)
            /\ UNCHANGED <<running, pc, overlap>>
       ELSE \E ok \in BOOLEAN :
              /\ running' = IF ok THEN TRUE ELSE FlagAfterFailedInit
              /\ pc' = IF ok /\ pc = "none" THEN "new" ELSE pc
              /\ overlap' = (overlap \/ (ok /\ pc # "none"))
              /\ last' = Last("start", 0, IF ok THEN "created" ELSE "failed", "none", {}, -1,
                              FALSE)
    /\ UNCHANGED <<cache, rows, nCfg, cfgIdx, pending, nHooks, hookIdx, success, sleepFor,
                   dispatched, checked, cancelled>>
    /\ UNCHANGED <<fvars, svars>>

\* `for task in self._tasks: task.cancel()`: whether stop requests cancellation.
StopOnlyClearsFlag == FALSE

StopCancels == TRUE

\* stop_monitoring: clears the flag and requests the cancellation of every task
\* of _tasks, and returns.  The live task is suspended at an await (recorded
\* as the kind of the step); CancelledError is thrown into it there when it is
\* next resumed.
Stop ==
    /\ AtAwait
    /\ (StopCancels /\ pc # "none") => cancelled < MaxCancelled
    /\ running' = FALSE
    /\ IF StopCancels
       THEN /\ NoTask
            /\ cancelled' = IF pc # "none" THEN cancelled + 1 ELSE cancelled
       ELSE UNCHANGED <<pc, nCfg, cfgIdx, pending, nHooks, hookIdx, success, sleepFor,
                        checked, cancelled>>
    /\ last' = Last("stop", 0, pc, "none", {}, -1, FALSE)
    /\ UNCHANGED <<cache, rows, dispatched, overlap>>
    /\ UNCHANGED <<fvars, svars>>

\* A cancelled task is resumed: CancelledError is raised at its await.  It is
\* no Exception, so neither _send_to_webhook, _forward_to_webhooks,
\* _check_emails nor the loop catches it: the task ends there.
TaskCancelled ==
    /\ AtAwait
    /\ cancelled > 0
    /\ cancelled' = cancelled - 1
    /\ last' = Last("cancelled", 0, "none", "none", {}, -1, FALSE)
    /\ UNCHANGED <<running, cache, rows, pc, nCfg, cfgIdx, pending, nHooks, hookIdx, success,
                   sleepFor, dispatched, checked, overlap>>
    /\ UNCHANGED <<fvars, svars>>

\* The process exits and a new one is created: a fresh EmailProcessor (empty
\* cache, no task, flag false) over the same database.
Restart ==
    /\ running' = FALSE
    /\ cache' = {}
    /\ NoTask
    /\ cancelled' = 0
    /\ last' = EnvLast
    /\ UNCHANGED <<rows, dispatched, overlap>>
    /\ UNCHANGED <<fvars, svars>>

\* Another instance of the application over the same database commits the
\* record of message m (its own _save_processed_email).
ExternalRecord ==
    /\ BagCardinality(rows) < MaxMsgs
    /\ \E m \in MsgIds, f \in BOOLEAN :
          /\ ~UniqueViolation(rows, m)
          /\ rows' = Insert(rows, m, f)
    /\ last' = EnvLast
    /\ UNCHANGED <<running, cache, pc, nCfg, cfgIdx, pending, nHooks, hookIdx, success,
                   sleepFor, dispatched, checked, tvars>>
    /\ UNCHANGED <<fvars, svars>>

\* DELETE /processed-emails/{email_id}: the handler runs on the event loop, so
\* while the loop task is suspended; it deletes one row and commits.  It does
\* not touch _processed_ids.
DeleteProcessedEmail ==
    /\ AtAwait
    /\ \E r \in BagToSet(rows) : rows' = rows (-) SetToBag({r})
    /\ last' = EnvLast
    /\ UNCHANGED <<running, cache, pc, nCfg, cfgIdx, pending, nHooks, hookIdx, success,
                   sleepFor, dispatched, checked, tvars>>
    /\ UNCHANGED <<fvars, svars>>

\* DELETE /processed-emails/: deletes every row and commits.
ClearAllProcessedEmails ==
    /\ AtAwait
    /\ rows' = EmptyBag
    /\ last' = EnvLast
    /\ UNCHANGED <<running, cache, pc, nCfg, cfgIdx, pending, nHooks, hookIdx, success,
                   sleepFor, dispatched, checked, tvars>>
    /\ UNCHANGED <<fvars, svars>>

Next ==
    \/ Start
    \/ Stop
    \/ TaskCancelled
    \/ Restart
    \/ ExternalRecord
    \/ DeleteProcessedEmail
    \/ ClearAllProcessedEmails
    \/ LoopTop
    \/ CheckEmails
    \/ ProcessMessage
    \/ Post

Spec == Init /\ [][Next]_vars

\* The event loop runs every callback it has scheduled: a task whose
\* cancellation was requested is resumed.
SpecStop ==
    /\ Init
    /\ [][Next]_vars
    /\ WF_vars(TaskCancelled)

\* ------------------------------------------- _forward_to_webhooks alone
\* The lists of active webhooks of one call, each webhook with the outcome its
\* POST will have.
HookLists == UNION {[1..n -> Outcomes] : n \in 0..MaxOuts}

InitF ==
    /\ NoProcessor
    /\ NoSide
    /\ fHooks \in HookLists
    /\ fPc = "call"
    /\ fIdx = 0
    /\ fSuccess = FALSE
    /\ fPosts = <<>>
    /\ fRaised = FALSE
    /\ fCfg \in [DOMAIN fHooks -> WebhookConfigs]
    /\ fMsg \in Messages
    /\ fReqs = <<>>

\* The query of the active webhooks, `if not webhooks: return False`, and
\* `success = False` before the loop.
ForwardCall ==
    /\ fPc = "call"
    /\ IF fHooks = <<>>
       THEN /\ fSuccess' = ForwardNoHooks
            /\ fPc' = "done"
            /\ fIdx' = 0
       ELSE /\ fSuccess' = FALSE
            /\ fPc' = "loop"
            /\ fIdx' = 1
    /\ UNCHANGED <<fHooks, fPosts, fRaised, fCfg, fMsg, fReqs>>
    /\ UNCHANGED <<mvars, svars>>

\* One pass of `for webhook in webhooks`: the POST to webhook fIdx and what its
\* outcome does to `success`; after the last pass `return success`.
ForwardStep ==
    /\ fPc = "loop"
    /\ LET a == AfterSend(fSuccess, fHooks[fIdx])
       IN  /\ fPosts' = Append(fPosts, fIdx)
           /\ fReqs' = Append(fReqs, Request(fCfg[fIdx], fMsg))
           /\ fSuccess' = a.success
           /\ fRaised' = (a.go = "raise")
           /\ IF a.go = "raise" \/ fIdx = Len(fHooks)
              THEN fPc' = "done" /\ fIdx' = fIdx
              ELSE fPc' = "loop" /\ fIdx' = fIdx + 1
    /\ UNCHANGED <<fHooks, fCfg, fMsg>>
    /\ UNCHANGED <<mvars, svars>>

\* _forward_to_webhooks of email_forwarder/app/services/processor.py on the
\* webhooks from index i on, `success` being s: a POST answered below 300 sets
\* success to True, any other answer and an exception of the POST (caught in
\* the loop) leave it as it is.
RECURSIVE ForwarderLoop(_, _, _)
ForwarderLoop(hooks, i, s) ==
    IF i > Len(hooks) THEN s
    ELSE ForwarderLoop(hooks, i + 1, AccumulateAny(s, SendToWebhook(hooks[i])))

\* The result of that copy for the active webhooks `hooks`: False without a
\* POST when there is none, else one POST per webhook in query order.
ForwarderForward(hooks) ==
    IF hooks = <<>> THEN [success |-> FALSE, posts |-> <<>>]
    ELSE [success |-> ForwarderLoop(hooks, 1, FALSE),
          posts |-> [i \in 1..Len(hooks) |-> i]]

NextF ==
    \/ ForwardCall
    \/ ForwardStep

SpecForward == InitF /\ [][NextF]_vars

\* ------------------------------------------- the monitor CRUD endpoints
\* A stored or submitted check_interval_seconds is the empty set for null/None
\* and {n} for the integer n.  A request either leaves the field out or gives
\* it a value.
IntervalInputs ==
    {[given |-> FALSE, v |-> {}]} \cup
    {[given |-> TRUE, v |-> x] :
        x \in {{}, {FloorInterval - 1}, {FloorInterval}, {FloorInterval + 1},
                {DefaultInterval}}}

\* EmailMonitorCreate.check_interval_seconds: int = Field(60, ge=30): the
\* default when left out, None and integers below 30 are rejected.
CreateField(inp) ==
    IF ~inp.given THEN [ok |-> TRUE, v |-> {DefaultInterval}]
    ELSE IF inp.v = {} THEN [ok |-> FALSE, v |-> {}]
    ELSE [ok |-> \A n \in inp.v : n >= FloorInterval, v |-> inp.v]

\* EmailMonitorUpdate.check_interval_seconds: Optional[int] = Field(None,
\* ge=30), read with dict(exclude_unset=True): a field left out is not in
\* update_data; an explicit null is a valid Optional value (the bound applies
\* to integers) and is in update_data as None; an integer must be at least 30.
UpdateField(inp) ==
    IF ~inp.given THEN [ok |-> TRUE, set |-> FALSE, v |-> {}]
    ELSE IF inp.v = {} THEN [ok |-> TRUE, set |-> TRUE, v |-> {}]
    ELSE [ok |-> \A n \in inp.v : n >= FloorInterval, set |-> TRUE, v |-> inp.v]

CrudLast(op, id, status) == [op |-> op, id |-> id, status |-> status]

\* POST /email-configs/: EmailMonitorConfig(**config.dict()), add, commit.
CreateEmailConfig ==
    /\ \E inp \in IntervalInputs :
          LET f == CreateField(inp)
          IN  IF f.ok
              THEN /\ Len(cfgs) < MaxConfigs
                   /\ cfgs' = Append(cfgs, f.v)
                   /\ cLast' = CrudLast("create", Len(cfgs) + 1, 201)
              ELSE /\ cfgs' = cfgs
                   /\ cLast' = CrudLast("create", 0, 422)
    /\ UNCHANGED cOthers

\* PUT /email-configs/{config_id}: setattr for every key of update_data, commit;
\* the response model (check_interval_seconds: int) fails on a stored None
\* after the commit.
UpdateEmailConfig ==
    /\ \E id \in 1..MaxConfigs, inp \in IntervalInputs :
          LET f == UpdateField(inp)
              v == IF f.set THEN f.v ELSE cfgs[id]
          IN  IF id \notin DOMAIN cfgs
              THEN cfgs' = cfgs /\ cLast' = CrudLast("update", id, 404)
              ELSE IF ~f.ok
              THEN cfgs' = cfgs /\ cLast' = CrudLast("update", id, 422)
              ELSE /\ cfgs' = [cfgs EXCEPT ![id] = v]
                   /\ cLast' = CrudLast("update", id, IF v = {} THEN 500 ELSE 200)
    /\ UNCHANGED cOthers

\* DELETE /email-configs/{config_id}
DeleteEmailConfig ==
    /\ \E id \in 1..MaxConfigs :
          IF id \notin DOMAIN cfgs
          THEN cfgs' = cfgs /\ cLast' = CrudLast("delete", id, 404)
          ELSE /\ cfgs' = [i \in 1..(Len(cfgs) - 1) |-> IF i < id THEN cfgs[i] ELSE cfgs[i + 1]]
               /\ cLast' = CrudLast("delete", id, 204)
    /\ UNCHANGED cOthers

NextConfig ==
    \/ CreateEmailConfig
    \/ UpdateEmailConfig
    \/ DeleteEmailConfig

SpecConfig == Init /\ [][NextConfig]_vars

\* ------------------------------------------------ the OAuth login flow
ClockStep == StateTokenLifetime \div 2

\* The state values a callback request can carry: 0 is a missing or empty
\* state, an id above `issued` is one no login has generated.
CallbackStates == 0..MaxStates

\* load_state_tokens: the tokens younger than the lifetime are kept, in the
\* file and in memory.
Sweep(tokens, t) == {r \in tokens : t - r.at < StateTokenLifetime}

\* `is_valid_state = (state in state_tokens) or (state in memory_state_tokens)`
\* followed by `is_valid_state = True`.
IsValidState(known) == TRUE

AuthLast(op, s, status, known, exchanged) ==
    [op |-> op, s |-> s, status |-> status, known |-> known,
     exchanged |-> exchanged, before |-> tokenFile]

\* GET /auth/login: sweep, generate a state token, store it with the time,
\* create the flow and register it under the token; a failure to create the
\* flow answers 500 after the token was stored.
Login ==
    /\ issued < MaxStates
    /\ \E flowOk \in BOOLEAN :
          LET s == issued + 1
          IN  /\ stateTokens' = Sweep(stateTokens, now) \cup {[s |-> s, at |-> now]}
              /\ issued' = s
              /\ oauthFlows' = IF flowOk THEN oauthFlows \cup {s} ELSE oauthFlows
              /\ aLast' = AuthLast("login", s, IF flowOk THEN 307 ELSE 500, FALSE, FALSE)
    /\ UNCHANGED <<now, tokenFile>>
    /\ UNCHANGED aOthers

\* GET /auth/callback. `client` is whether a client configuration is there to
\* recreate a flow from, `grant` whether Google accepts the code.
Callback ==
    /\ \E s \in CallbackStates, err \in BOOLEAN, client \in BOOLEAN, grant \in BOOLEAN :
          LET kept == Sweep(stateTokens, now)
              known == \E r \in kept : r.s = s
          IN  IF s = 0 \/ err
              THEN /\ aLast' = AuthLast("callback", s, 400, known, FALSE)
                   /\ UNCHANGED <<stateTokens, oauthFlows, tokenFile>>
              ELSE IF ~IsValidState(known)
              THEN /\ stateTokens' = kept
                   /\ aLast' = AuthLast("callback", s, 400, known, FALSE)
                   /\ UNCHANGED <<oauthFlows, tokenFile>>
              ELSE IF s \notin oauthFlows /\ ~client
              THEN /\ stateTokens' = kept
                   /\ aLast' = AuthLast("callback", s, 400, known, FALSE)
                   /\ UNCHANGED <<oauthFlows, tokenFile>>
              ELSE /\ stateTokens' = {r \in kept : r.s # s}
                   /\ oauthFlows' = oauthFlows \ {s}
                   /\ tokenFile' = IF grant THEN {s} ELSE {}
                   /\ aLast' = AuthLast("callback", s, IF grant THEN 200 ELSE 400,
                                        known, TRUE)
    /\ UNCHANGED <<issued, now>>
    /\ UNCHANGED aOthers

\* time passes
Tick ==
    /\ now < MaxClock * ClockStep
    /\ now' = now + ClockStep
    /\ UNCHANGED <<stateTokens, oauthFlows, issued, tokenFile, aLast>>
    /\ UNCHANGED aOthers

NextAuth ==
    \/ Login
    \/ Callback
    \/ Tick

SpecAuth == Init /\ [][NextAuth]_vars


\* ------------------------- two invocations of _process_email_message
\* Two coroutines on one event loop call _process_email_message.  A coroutine
\* runs until it is suspended: `async with self._lock` does not suspend, since
\* the lock is released at the end of the check (383-384) and so is free
\* whenever another coroutine runs; the store query, the fetch and the commit
\* are blocking calls; the POST of a webhook suspends.
Callers == {1, 2}

RaceHookLists == UNION {[1..n -> Outcomes] : n \in 0..MaxHooks}

RaceExisting(m) == \E r \in BagToSet(rRows) : r.mid = m

InitRace ==
    /\ NoProcessor
    /\ NoDispatch
    /\ NoConfigs
    /\ NoAuth
    /\ NoExtract
    /\ NoSockets
    /\ rId \in [Callers -> MsgIds]
    /\ rPc = [c \in Callers |-> "call"]
    /\ rHooks \in RaceHookLists
    /\ rIdx = [c \in Callers |-> 0]
    /\ \E stored \in SUBSET MsgIds :
          /\ rRows = SetToBag({Row(m, TRUE) : m \in stored})
          /\ rCache \in SUBSET stored
    /\ rDecided = [c \in Callers |-> "none"]
    /\ rPosts = <<>>

\* db.add + db.commit of invocation c, then `self._processed_ids.add`: the
\* commit raises on a second row of the id and the add is not reached.
RaceSave(c) ==
    LET m == rId[c]
    IN  IF UniqueViolation(rRows, m)
        THEN /\ rPc' = [rPc EXCEPT ![c] = "raised"]
             /\ UNCHANGED <<rRows, rCache>>
        ELSE /\ rRows' = Insert(rRows, m, FALSE)
             /\ rCache' = rCache \cup {m}
             /\ rPc' = [rPc EXCEPT ![c] = "done"]

\* Invocation c from its call to its first suspension: the check of the cache
\* under the lock, the store query with the add to the cache after a hit, the
\* fetch, the body test, and the dispatch up to its first POST.
RaceBegin(c) ==
    /\ rPc[c] = "call"
    /\ LET m == rId[c]
       IN  IF m \in rCache
           THEN /\ rDecided' = [rDecided EXCEPT ![c] = "skip_cache"]
                /\ rPc' = [rPc EXCEPT ![c] = "done"]
                /\ UNCHANGED <<rCache, rRows, rIdx>>
           ELSE IF RaceExisting(m)
           THEN /\ rDecided' = [rDecided EXCEPT ![c] = "skip_store"]
                /\ rCache' = rCache \cup {m}
                /\ rPc' = [rPc EXCEPT ![c] = "done"]
                /\ UNCHANGED <<rRows, rIdx>>
           ELSE IF ~HasBody(m)
           THEN /\ rDecided' = [rDecided EXCEPT ![c] = "no_body"]
                /\ rPc' = [rPc EXCEPT ![c] = "done"]
                /\ UNCHANGED <<rCache, rRows, rIdx>>
           ELSE IF rHooks = <<>>
           THEN /\ rDecided' = [rDecided EXCEPT ![c] = "new"]
                /\ RaceSave(c)
                /\ UNCHANGED rIdx
           ELSE /\ rDecided' = [rDecided EXCEPT ![c] = "new"]
                /\ rPc' = [rPc EXCEPT ![c] = "post"]
                /\ rIdx' = [rIdx EXCEPT ![c] = 1]
                /\ UNCHANGED <<rCache, rRows>>
    /\ UNCHANGED <<rId, rHooks, rPosts>>
    /\ UNCHANGED rOthers

\* The POST of invocation c returns: the next POST, or after the last one the
\* record and the add to the cache.
RacePost(c) ==
    /\ rPc[c] = "post"
    /\ rPosts' = Append(rPosts, <<c, rId[c]>>)
    /\ IF rIdx[c] < Len(rHooks)
       THEN /\ rIdx' = [rIdx EXCEPT ![c] = rIdx[c] + 1]
            /\ UNCHANGED <<rPc, rCache, rRows>>
       ELSE /\ RaceSave(c)
            /\ UNCHANGED rIdx
    /\ UNCHANGED <<rId, rHooks, rDecided>>
    /\ UNCHANGED rOthers

NextRace ==
    \/ \E c \in Callers : RaceBegin(c)
    \/ \E c \in Callers : RacePost(c)

SpecRace == InitRace /\ [][NextRace]_vars


\* --------------------------------------------------- _extract_email_data
\* The Date header of a fetched message: a date parsedate_to_datetime reads,
\* a string it cannot read, or no header (date_str is '').
Dates == {"valid", "garbage", "missing"}

\* body.data values: base64url of an empty body, of "buy", of "sell", and of
\* the single byte 0xFF, which is no UTF-8 text.
DataValues == {"", "YnV5", "c2VsbA==", "_w=="}

\* base64.urlsafe_b64decode(data).decode('utf-8')
Decode(d) ==
    CASE d = "" -> [kind |-> "text", text |-> ""]
      [] d = "YnV5" -> [kind |-> "text", text |-> "buy"]
      [] d = "c2VsbA==" -> [kind |-> "text", text |-> "sell"]
      [] OTHER -> [kind |-> "raise", text |-> ""]

\* a body object: {} without the key 'data', {d} with data d
Bodies == {{}} \cup {{d} : d \in DataValues}

Parts == [mime : {"text/plain", "text/html"}, data : Bodies]

GmailMessages ==
    {m \in [date : Dates, hasParts : BOOLEAN, body : Bodies,
            parts : UNION {[1..n -> Parts] : n \in 0..MaxParts}] :
        ~m.hasParts => m.parts = <<>>}

\* `if part['mimeType'] == 'text/plain': if 'data' in part['body']`
AnyPartWithData(part) == part.data # {}

PlainWithData(part) == part.mime = "text/plain" /\ part.data # {}

\* `for part in payload['parts']` from part i on: the data of the first part
\* the test accepts, {} when the loop ends without a return.
RECURSIVE FirstPlain(_, _)
FirstPlain(parts, i) ==
    IF i > Len(parts) THEN {}
    ELSE IF PlainWithData(parts[i]) THEN parts[i].data
    ELSE FirstPlain(parts, i + 1)

DecodeIn(b) == Decode(CHOOSE d \in b : TRUE)

\* _get_email_body
GetEmailBody(m) ==
    LET p == IF m.hasParts THEN FirstPlain(m.parts, 1) ELSE {}
    IN  IF p # {} THEN DecodeIn(p)
        ELSE IF m.body # {} THEN DecodeIn(m.body)
        ELSE NoBody

\* `received_at = datetime.now()`, then parsedate_to_datetime(date_str) inside
\* try / bare except.
ReceivedAt(d) == IF d = "valid" THEN "date" ELSE "now"

InitExtract ==
    /\ NoProcessor
    /\ NoDispatch
    /\ NoConfigs
    /\ NoAuth
    /\ NoRace
    /\ NoSockets
    /\ eMsg \in GmailMessages
    /\ ePc = "call"
    /\ eRes = [raised |-> FALSE, body |-> NoBody, received |-> "none"]
    /\ eOut = "none"

\* _extract_email_data(msg): the date first, then the body; the decoding of
\* the body is outside any try.
ExtractEmailData ==
    /\ ePc = "call"
    /\ LET at == ReceivedAt(eMsg.date)
           b == GetEmailBody(eMsg)
       IN  eRes' = IF b.kind = "raise"
                   THEN [raised |-> TRUE, body |-> NoBody, received |-> "none"]
                   ELSE [raised |-> FALSE, body |-> b, received |-> at]
    /\ ePc' = "extracted"
    /\ UNCHANGED <<eMsg, eOut>>
    /\ UNCHANGED eOthers

\* `if not email_data.get('body'): return`, else the dispatch; an exception of
\* the extraction leaves _process_email_message.
BodyTest ==
    /\ ePc = "extracted"
    /\ eOut' = IF eRes.raised THEN "raise"
               ELSE IF eRes.body.kind = "none" \/ eRes.body.text = "" THEN "no_body"
               ELSE "forward"
    /\ ePc' = "tested"
    /\ UNCHANGED <<eMsg, eRes>>
    /\ UNCHANGED eOthers

NextExtract ==
    \/ ExtractEmailData
    \/ BodyTest

SpecExtract == InitExtract /\ [][NextExtract]_vars


\* ------------------------------------------------ the websocket broadcast
Listed == {conns[i] : i \in DOMAIN conns}

\* `del active_connections[i]` with the IndexError caught; i counts from 0.
DelAt(s, i) ==
    IF i < Len(s) THEN SubSeq(s, 1, i) \o SubSeq(s, i + 2, Len(s)) ELSE s

\* `for i in sorted(disconnected, reverse=True): del active_connections[i]`;
\* the indices were appended in increasing order.
RECURSIVE DelAll(_, _)
DelAll(s, d) ==
    IF d = <<>> THEN s
    ELSE DelAll(DelAt(s, d[Len(d)]), SubSeq(d, 1, Len(d) - 1))

\* websocket_endpoint up to the receive loop: accept, append to the list.
Connect ==
    /\ opened < MaxConns
    /\ opened' = opened + 1
    /\ conns' = Append(conns, opened + 1)
    /\ wStatus' = [wStatus EXCEPT ![opened + 1] = "ok"]
    /\ UNCHANGED <<bPc, bIdx, bCur, bDisc, bStart, bSent, bFailed, bRemoved>>
    /\ UNCHANGED wOthers

\* receive_text raises WebSocketDisconnect in the handler of connection c,
\* which removes c from the list (55-58).
Disconnect ==
    /\ \E c \in Listed :
          /\ conns' = SelectSeq(conns, LAMBDA x : x # c)
          /\ wStatus' = [wStatus EXCEPT ![c] = "gone"]
    /\ UNCHANGED <<opened, bPc, bIdx, bCur, bDisc, bStart, bSent, bFailed, bRemoved>>
    /\ UNCHANGED wOthers

\* The peer of connection c vanishes without a close frame: sends to c raise,
\* the handler of c has not been told yet.
Break ==
    /\ \E c \in Listed :
          /\ wStatus[c] = "ok"
          /\ wStatus' = [wStatus EXCEPT ![c] = "broken"]
    /\ UNCHANGED <<conns, opened, bPc, bIdx, bCur, bDisc, bStart, bSent, bFailed,
                   bRemoved>>
    /\ UNCHANGED wOthers

\* The end of the loop of broadcast b with the local list d: the deletions by
\* index, which are not suspended.
BroadcastEnds(b, d) ==
    /\ conns' = DelAll(conns, d)
    /\ bRemoved' = [bRemoved EXCEPT ![b] = Listed \ {DelAll(conns, d)[i] :
                                                       i \in DOMAIN DelAll(conns, d)}]
    /\ bPc' = [bPc EXCEPT ![b] = "done"]
    /\ bDisc' = [bDisc EXCEPT ![b] = d]
    /\ UNCHANGED <<bIdx, bCur>>

\* broadcast_email_processed from its call to its first suspension: nothing to
\* do for an empty list, else the send to the first connection.  A listed
\* connection is in CONNECTED state: the handler removes it in the step in
\* which receive makes it DISCONNECTED.
BroadcastStart ==
    /\ \E b \in Tasks :
          /\ bPc[b] = "idle"
          /\ bStart' = [bStart EXCEPT ![b] = Listed]
          /\ IF conns = <<>>
             THEN /\ bPc' = [bPc EXCEPT ![b] = "done"]
                  /\ UNCHANGED <<bIdx, bCur, bSent>>
             ELSE /\ bPc' = [bPc EXCEPT ![b] = "send"]
                  /\ bIdx' = [bIdx EXCEPT ![b] = 0]
                  /\ bCur' = [bCur EXCEPT ![b] = conns[1]]
                  /\ bSent' = [bSent EXCEPT ![b] = {conns[1]}]
    /\ UNCHANGED <<conns, wStatus, opened, bDisc, bFailed, bRemoved>>
    /\ UNCHANGED wOthers

\* `await connection.send_text(message)` of broadcast b returns or raises; the
\* index is noted on a raise; the list iterator goes to the next index of the
\* list as it is now, or the loop ends.
SendReturns ==
    /\ \E b \in Tasks :
          /\ bPc[b] = "send"
          /\ LET failed == wStatus[bCur[b]] # "ok"
                 d == IF failed THEN Append(bDisc[b], bIdx[b]) ELSE bDisc[b]
                 i == bIdx[b] + 1
             IN  /\ bFailed' = [bFailed EXCEPT
                                   ![b] = IF failed THEN @ \cup {bCur[b]} ELSE @]
                 /\ IF i < Len(conns)
                    THEN /\ bIdx' = [bIdx EXCEPT ![b] = i]
                         /\ bCur' = [bCur EXCEPT ![b] = conns[i + 1]]
                         /\ bSent' = [bSent EXCEPT ![b] = @ \cup {conns[i + 1]}]
                         /\ bDisc' = [bDisc EXCEPT ![b] = d]
                         /\ UNCHANGED <<conns, bPc, bRemoved>>
                    ELSE /\ BroadcastEnds(b, d)
                         /\ UNCHANGED bSent
    /\ UNCHANGED <<wStatus, opened, bStart>>
    /\ UNCHANGED wOthers

NextSockets ==
    \/ Connect
    \/ Disconnect
    \/ Break
    \/ BroadcastStart
    \/ SendReturns

SpecSockets == Init /\ [][NextSockets]_vars

\* ================================================================ claims
\* C1: after any sequence of poll cycles, re-listings and overlapping runs of the
\* pipeline over the same database, the store holds at most one ProcessedEmail
\* row for each message id.
C1_OneRecordPerId == \A m \in MsgIds : CountOf(m) <= 1

\* C1 witness: the record step of the pipeline was rejected by the unique
\* constraint, because another writer recorded the id during the dispatch.
C1_Witness == last.step = "finish" /\ last.err = "unique" /\ CountOf(last.mid) = 1

\* C2 (as claimed): no message id is ever dispatched to the webhooks a second
\* time, whatever happened to the record step of its first dispatch.
C2_DispatchAtMostOnce == ~last.again

\* C3 (as claimed): for a non-empty list of active webhooks,
\* _forward_to_webhooks returns true exactly when at least one webhook answered
\* with a status below 300, whatever the order of the outcomes.
C3_TrueIffAnyAccepted ==
    (fPc = "done" /\ fHooks # <<>>) =>
        (fSuccess <=> \E i \in DOMAIN fHooks : fHooks[i] = "ok")

\* C4: a listed message id that has a ProcessedEmail row when the pipeline
\* reaches it is skipped: no fetch, no POST, no insert, no publish (the only
\* other outcome is the dedup query itself raising, with no effect either).
C4_StoredIsSkipped ==
    (last.step = "begin" /\ Existing(last.mid) /\ "insert" \notin last.fx) =>
        /\ last.fx = {}
        /\ last.hooks = -1
        /\ CountOf(last.mid) = 1
        /\ last.kind \in {"skip_cache", "skip_store"} \/ last.err = "dedup"

\* C4 witness: an id that was not in the cache was skipped on the store's answer.
C4_Witness == last.step = "begin" /\ last.kind = "skip_store" /\ Existing(last.mid)

\* C5: a message with a body processed while no webhook is active (the store
\* accepting its operations) raises nothing, makes no POST and leaves exactly
\* one row for it, with forwarded_successfully false, and its id in the cache.
C5_NoWebhooksRecorded ==
    (last.step = "begin" /\ last.hooks = 0 /\ last.err = "none") =>
        /\ last.kind = "recorded"
        /\ "post" \notin last.fx
        /\ CountOf(last.mid) = 1
        /\ CopiesIn(Row(last.mid, FALSE), rows) = 1
        /\ last.mid \in cache

\* C5 witness: a message was recorded by a dispatch that found no webhook.
C5_Witness ==
    last.step = "begin" /\ last.hooks = 0 /\ last.kind = "recorded" /\ HasBody(last.mid)

\* C6: a fetched message without a body ends there: no dispatch, no row, not
\* cached, nothing published, so the next listing of it finds it neither cached
\* nor recorded and fetches it again.
C6_NoBodyNoEffect ==
    (last.step = "begin" /\ "fetch" \in last.fx /\ last.err = "none" /\ ~HasBody(last.mid)) =>
        /\ last.kind = "nobody"
        /\ last.fx = {"fetch"}
        /\ last.hooks = -1
        /\ ~Existing(last.mid)
        /\ last.mid \notin cache
        /\ last.mid \notin dispatched

\* C6 witness: a message without a body was fetched and skipped.
C6_Witness == last.step = "begin" /\ last.kind = "nobody" /\ ~HasBody(last.mid)

\* C7: one dispatch POSTs to every active webhook exactly once, in order,
\* whatever the outcomes of the others, and never raises.
C7_EveryHookPostedOnce ==
    /\ ~fRaised
    /\ fPc = "done" => fPosts = [i \in 1..Len(fHooks) |-> i]
    /\ fPc = "loop" => fPosts = [i \in 1..(fIdx - 1) |-> i]

\* C7 witness: a dispatch ended whose first webhook raised and whose later
\* webhooks were still POSTed to.
C7_Witness ==
    fPc = "done" /\ Len(fHooks) >= 2 /\ fHooks[1] = "exc" /\ Len(fPosts) = Len(fHooks)

\* C8: an exception while checking one monitor leaves the loop running and every
\* other monitor fetched for the iteration is still checked: an iteration ends
\* (in a sleep) only with every fetched config checked.
C8_OtherMonitorsChecked ==
    /\ pc \in {"sleep", "backoff"} => checked = nCfg
    /\ (last.kind = "raise" /\ last.err # "configs") =>
           (pc \in {"check", "sleep"} /\ (pc = "check" => cfgIdx = checked + 1))

\* C8 witness: the check of the first monitor raised and the second is next.
C8_Witness == last.kind = "raise" /\ last.err # "configs" /\ pc = "check" /\ cfgIdx = 2

\* C9: no error ends the loop: while the flag is set a loop task exists; an
\* exception of the loop body leads to a sleep of 60 seconds, which only a new
\* iteration (or a stop) leaves; the task ends only with the flag cleared.
C9_LoopSurvivesErrors ==
    /\ [](running => pc # "none")
    /\ []((last.step = "top" /\ last.err = "configs") => pc = "backoff")
    /\ [](pc = "backoff" => sleepFor = BackoffSleep)
    /\ [][(pc = "backoff" /\ pc' # "backoff") => (last'.step = "top" \/ ~running')]_vars
    /\ [][(pc # "none" /\ pc' = "none") => ~running']_vars

\* C9 witness: the query of the active configs raised and the task is in the
\* backoff sleep, the flag still set.
C9_Witness == running /\ pc = "backoff" /\ last.err = "configs"

C11_UniqueRejectionBenign ==
    (last.step = "finish" /\ "insert" \notin last.fx /\ last.err # "commit"
        /\ Existing(last.mid)) =>
        /\ last.kind # "raise"
        /\ last.mid \in cache
        /\ CountOf(last.mid) = 1

\* C12 (as claimed): when the cache and the store disagree about an id, the
\* dedup decision is the store's answer: an id is skipped only when the store
\* has its row.
C12_StoreWins ==
    (last.step = "begin" /\ last.kind \in {"skip_cache", "skip_store"}) =>
        Existing(last.mid)

\* C13: for any interleaving of start and stop calls at most one loop task runs
\* poll cycles: no task is ever created while another is live, a live task
\* exists only while the flag is set, and an iteration begins only when the
\* task is new or wakes from the sleep that ended the previous one.
C13_SingleLoopTask ==
    /\ [](~overlap /\ (pc # "none" => running))
    /\ [][last'.step = "top" => pc \in {"new", "sleep", "backoff"}]_vars

\* C13 witness: start was called while the task was in a cycle (awaiting a
\* POST) and created nothing.
C13_Witness ==
    last.step = "start" /\ last.kind = "noop" /\ pc = "post" /\ running /\ cancelled = 0

\* C14: stop_monitoring returns at once, whatever the task awaits; it leaves
\* the flag cleared and no task that is not cancelled; while the flag is
\* cleared no step of a poll cycle (check, fetch, POST, record) is taken; the
\* end of a cancelled task changes nothing of the pipeline; every cancelled
\* task ends.
C14_StopCancelsPromptly ==
    /\ [](last.step = "stop" => (~running /\ pc = "none"))
    /\ [](~running => last.step \notin {"check", "begin", "post", "finish"})
    /\ [][last'.step = "cancelled" =>
            (cancelled' = cancelled - 1 /\ UNCHANGED <<rows, cache, dispatched, pc>>)]_vars
    /\ (cancelled > 0) ~> (last.step = "cancelled" \/ cancelled = 0)

\* C14 witness: stop was called while a POST was in flight; the message is not
\* recorded and the cancelled task has not ended yet.
C14_Witness ==
    /\ last.step = "stop" /\ last.kind = "post"
    /\ cancelled > 0
    /\ \E m \in dispatched : ~Existing(m)

\* C15: the steps of a message occur in the order dispatch, record, publish:
\* a row is inserted only by a step at which the dispatch has returned (no
\* webhook active, or the answer of the last webhook), a publish is attempted
\* only with the row committed, and when the commit raised the id is neither
\* cached nor published.
C15_DispatchRecordPublish ==
    /\ []("insert" \in last.fx => (last.hooks >= 0 /\ pc # "post"))
    /\ []((last.fx \cap {"publish", "pubfail"} # {}) =>
             ("insert" \in last.fx /\ Existing(last.mid) /\ last.mid \in cache))
    /\ []((last.step \in {"begin", "finish"} /\ last.err \in {"commit", "unique"}) =>
             (last.mid \notin cache /\ last.fx \cap {"insert", "publish", "pubfail"} = {}))
    /\ [][(last'.step = "finish" /\ "insert" \in last'.fx) =>
            (pc = "post" /\ hookIdx = nHooks /\ last'.mid = Head(pending))]_vars

\* C15 witness: the last webhook answered, the row was committed, the id cached
\* and the event published.
C15_Witness ==
    /\ last.step = "finish" /\ last.kind = "recorded" /\ last.hooks >= 1
    /\ "publish" \in last.fx
    /\ Existing(last.mid) /\ last.mid \in cache

\* C16: a failure of the publish (scheduling it, or the broadcast itself) leaves
\* the message recorded once and cached, raises nothing, and the loop over the
\* listing goes on with the next listed message.
C16_PublishFailureHarmless ==
    /\ []("pubfail" \in last.fx =>
             /\ last.kind = "recorded" /\ last.err = "none"
             /\ CountOf(last.mid) = 1
             /\ last.mid \in cache)
    /\ [][("pubfail" \in last'.fx /\ last'.step \in {"begin", "finish"}) =>
            /\ pending' = Tail(pending)
            /\ (Len(pending) > 1 => pc' = "msg")
            /\ \E f \in BOOLEAN : rows' = Insert(rows, last'.mid, f)]_vars

\* C16 witness: the publish of a message failed and the next listed message is
\* about to be processed.
C16_Witness ==
    /\ "pubfail" \in last.fx /\ last.kind = "recorded"
    /\ pc = "msg" /\ pending # <<>>
    /\ Existing(last.mid)

\* C17 (as claimed): when the fetch of one listed message raises, the failure
\* is not propagated and the remaining messages of that monitor's listing are
\* still processed in the same cycle: the loop over the listing goes on with
\* the next message.
C17_FetchFailureIsolated ==
    [][(last'.step = "begin" /\ last'.err = "fetch") =>
        /\ pc' \notin {"backoff", "none"}
        /\ pending' = Tail(pending)
        /\ (Len(pending) > 1 => pc' = "msg")]_vars

C19_SleepsMinInterval ==
    /\ []((pc = "sleep" /\ nCfg > 0) =>
             /\ checked = nCfg
             /\ \A i \in 1..nCfg : sleepFor <= IntervalOf(i)
             /\ \E i \in 1..nCfg : sleepFor = IntervalOf(i))
    /\ []((pc = "sleep" /\ nCfg = 0) => sleepFor = DefaultSleep)
    /\ [](pc = "check" => (cfgIdx = checked + 1 /\ cfgIdx <= nCfg))
    /\ [](pc \in {"msg", "post"} => (cfgIdx = checked /\ cfgIdx <= nCfg))
    /\ []((last.step = "top" /\ last.err = "none" /\ pc # "none") =>
             /\ checked = 0 /\ last.fx = {}
             /\ IF nCfg = 0 THEN pc = "sleep" ELSE pc = "check" /\ cfgIdx = 1)
    /\ [][last'.step = "top" => UNCHANGED <<rows, cache, dispatched>>]_vars

\* C19 witness: two monitors were checked and the task sleeps the smaller of
\* their two intervals, which is not the default.
C19_Witness ==
    /\ pc = "sleep" /\ nCfg = 2 /\ checked = 2
    /\ sleepFor = FloorInterval /\ sleepFor < IntervalOf(1)

\* C20: every request of a dispatch carries the webhook's content_type as its
\* Content-Type; for a webhook with send_raw_body its body is the extracted
\* text itself, otherwise it is a JSON object with exactly the keys body,
\* subject, sender and timestamp, holding the message's fields.
C20_PayloadByMode ==
    /\ Len(fReqs) = Len(fPosts)
    /\ \A i \in DOMAIN fReqs :
          LET w == fCfg[fPosts[i]]
              r == fReqs[i]
          IN  /\ r.ctype = w.ctype
              /\ IF w.raw
                 THEN r.kind = "data" /\ r.content = fMsg.body
                 ELSE /\ r.kind = "json"
                      /\ DOMAIN r.content = {"body", "subject", "sender", "timestamp"}
                      /\ r.content.body = fMsg.body
                      /\ r.content.subject = fMsg.subject
                      /\ r.content.sender = fMsg.sender

\* C20 witness: one dispatch POSTed to a raw webhook with a content type other
\* than JSON and to a structured webhook.
C20_Witness ==
    /\ fPc = "done" /\ Len(fReqs) >= 2
    /\ \E i, j \in DOMAIN fReqs :
          /\ fCfg[i].raw /\ fCfg[i].ctype = "text/plain" /\ fReqs[i].kind = "data"
          /\ ~fCfg[j].raw /\ fReqs[j].kind = "json"

\* C21: a start without a usable credential raises nothing, leaves the flag
\* false and no loop task, so no step of a poll cycle follows it, and the next
\* start call proceeds to the credential instead of returning at once.
C21_NoCredentialNoTask ==
    /\ (last.step = "start" /\ last.kind = "failed") =>
           /\ ~running /\ pc = "none"
           /\ StartProceeds(running)
    /\ (~running /\ pc = "none") =>
           /\ last.step \notin {"check", "begin", "post", "finish"}
           /\ pending = <<>> /\ nHooks = 0

\* C21 witness: a start failed for lack of a credential while the store
\* already held records.
C21_Witness ==
    /\ last.step = "start" /\ last.kind = "failed"
    /\ ~running /\ pc = "none"
    /\ rows # EmptyBag

\* C22 (as claimed): after any sequence of create and update requests every
\* stored monitor config has an integer check_interval_seconds of at least 30.
C22_IntervalFloor ==
    \A i \in DOMAIN cfgs : cfgs[i] # {} /\ \A n \in cfgs[i] : n >= FloorInterval


\* C23: the OAuth callback exchanges the authorization code only for a state
\* that a login issued, that is younger than 600 seconds and was not used
\* before; for any other state it answers with an error, exchanges nothing
\* and leaves the token file as it was.
C23_StateValidated ==
    aLast.op = "callback" =>
        /\ aLast.exchanged => aLast.known
        /\ ~aLast.known => aLast.status >= 400 /\ tokenFile = aLast.before

\* C24: of two concurrent invocations of the pipeline with the same message
\* id, neither cached nor stored, at most one decides that the message is new
\* and goes on to fetch and dispatch it.
C24_OneDecidesNew ==
    (rId # <<>> /\ rId[1] = rId[2]) =>
        ~(rDecided[1] = "new" /\ rDecided[2] = "new")


\* C25: the dedup check of a message whose id is in the cache is answered by
\* the cache: the message is skipped, the store is neither queried (so no
\* store error can arise) nor changed.  On a cache miss the store is queried,
\* and when it holds the id the message is skipped, nothing is fetched or
\* sent, and the id is added to the cache.
C25_CacheFirst ==
    [][
        (pc = "msg" /\ last'.step = "begin") =>
            LET m == Head(pending)
            IN  /\ m \in cache =>
                    /\ last'.kind = "skip_cache" /\ last'.err = "none" /\ last'.fx = {}
                    /\ cache' = cache /\ rows' = rows
                /\ (m \notin cache /\ Existing(m) /\ last'.err = "none") =>
                    /\ last'.kind = "skip_store" /\ last'.fx = {}
                    /\ cache' = cache \cup {m} /\ rows' = rows
                /\ last'.kind = "skip_store" => m \notin cache /\ Existing(m)
    ]_vars

\* C25 witness: an id that this process never dispatched was missed by the
\* cache, found in the store, skipped, and is in the cache now.
C25_Witness ==
    /\ last.step = "begin" /\ last.kind = "skip_store" /\ last.fx = {}
    /\ last.mid \in cache /\ last.mid \notin dispatched


\* C26: the body is the decoded data of the first part, in payload order, that
\* is text/plain and carries data; without such a part it is the decoded data
\* of the top-level body when there is one, and no body otherwise; the pipeline
\* treats an empty decoded body as no body.
C26_BodyChoice ==
    ePc \in {"extracted", "tested"} =>
        LET plain == {i \in DOMAIN eMsg.parts :
                         eMsg.parts[i].mime = "text/plain" /\ eMsg.parts[i].data # {}}
            want == IF plain # {}
                    THEN DecodeIn(eMsg.parts[CHOOSE i \in plain : \A j \in plain : i <= j].data)
                    ELSE IF eMsg.body # {} THEN DecodeIn(eMsg.body)
                    ELSE NoBody
        IN  /\ eRes.raised <=> want.kind = "raise"
            /\ ~eRes.raised => eRes.body = want
            /\ (ePc = "tested" /\ ~eRes.raised) =>
                   (eOut = "no_body" <=> (want.kind = "none" \/ want.text = ""))

\* C26 witness: the first part is text/html with data, the second text/plain
\* without data, the top-level body holds text, and that text was taken.
C26_Witness ==
    /\ ePc = "tested" /\ eOut = "forward"
    /\ Len(eMsg.parts) = 2
    /\ eMsg.parts[1].mime = "text/html" /\ eMsg.parts[1].data # {}
    /\ eMsg.parts[2].mime = "text/plain" /\ eMsg.parts[2].data = {}
    /\ eMsg.body # {} /\ eRes.body = DecodeIn(eMsg.body)

\* C27: for a message whose Date header is missing or unparseable the
\* extraction raises nothing and gives the processing time as received_at, and
\* the message goes on to the body test and the dispatch.
C27_BadDateNeverRaises ==
    (ePc \in {"extracted", "tested"} /\ eMsg.date \in {"garbage", "missing"}) =>
        /\ ~eRes.raised
        /\ eRes.received = "now"
        /\ eOut # "raise"


\* C28: as long as no ProcessedEmail row is deleted, every id in the cache has
\* a committed row: a step that deletes no row and starts with every cached id
\* stored ends with every cached id stored, and a message skipped for lack of
\* a body or whose commit failed is not cached by that step.
C28_CachedIsStored ==
    [][
        /\ (/\ \A m \in cache : UniqueViolation(rows, m)
            /\ \A r \in BagToSet(rows) : CopiesIn(r, rows') >= CopiesIn(r, rows))
           => \A m \in cache' : UniqueViolation(rows', m)
        /\ (last'.kind = "nobody" \/ last'.err \in {"commit", "unique"}) => cache' = cache
    ]_vars

\* C28 witness: the commit of a message failed, its id is not cached, and the
\* cache holds another id, which has its row.
C28_Witness ==
    /\ last.step = "finish" /\ last.err = "commit" /\ last.mid \notin cache
    /\ cache # {} /\ \A m \in cache : Existing(m)


\* C29: a broadcast that ran while clients connected or disconnected, or while
\* another broadcast ran, has removed from the list exactly the connections
\* whose send failed: it removed no connection whose send did not fail, it
\* left none whose send failed, and it skipped no healthy connection that was
\* listed from its start to its end.
C29_RemovesExactlyFailed ==
    \A b \in Tasks :
        bPc[b] = "done" =>
            /\ bRemoved[b] \subseteq bFailed[b]
            /\ bFailed[b] \cap Listed = {}
            /\ \A c \in bStart[b] \cap Listed : wStatus[c] = "ok" => c \in bSent[b]


\* C30: for every list of active webhooks and every combination of their
\* outcomes, _forward_to_webhooks of app/services/processor.py returns the
\* boolean and makes the POSTs that _forward_to_webhooks of
\* email_forwarder/app/services/processor.py returns and makes.
C30_CopiesAgree ==
    fPc = "done" =>
        /\ ~fRaised
        /\ fSuccess = ForwarderForward(fHooks).success
        /\ fPosts = ForwarderForward(fHooks).posts


====
